---- MODULE Spec2Model ----
(***************************************************************************)
(* Model of make_feed.py: one run of main(), which fetches the episode     *)
(* listing, selects the table rows that carry a published marker, extracts *)
(* an Info record from each, appends one feed entry per record and writes  *)
(* the feed file.                                                          *)
(*                                                                         *)
(* Text is a sequence of one-character strings, so that strip, strptime    *)
(* and string concatenation are computed on characters.  A Python value is *)
(* a record [type, val]; None is the value of type "NoneType".             *)
(***************************************************************************)
EXTENDS Integers, Sequences, FiniteSets, TLC

VARIABLES
    pc,         \* position of main(): the statement about to run
    server,     \* what the server answers to the GET: a response, or nothing
    resp_pg,    \* the response returned by get_release_pages()
    fg,         \* the FeedGenerator: feed-level data and the list of entries
    cursor,     \* how many <tr> of the document gen_entries has consumed
    li,         \* the row last yielded by gen_entries
    info,       \* the Info returned by the last extract_info call
    clock,      \* index of the last wall-clock reading taken
    file,       \* the contents of FEED_PATH on disk
    file0,      \* the contents of FEED_PATH when the run started
    log,        \* the lines written by logger at level INFO and above
    calls,      \* the calls main() has made so far, in order
    exc,        \* the exception that ended the run, "none" if there is none
    exit_code   \* the process exit status, -1 while the run is in progress

vars == <<pc, server, resp_pg, fg, cursor, li, info, clock, file, file0, log, calls,
          exc, exit_code>>

(***************************************************************************)
(* Bounds of the model.                                                    *)
(***************************************************************************)
MaxRows == 2      \* the page has at most MaxRows table rows
MaxTicks == 1     \* the wall clock advances at most MaxTicks times in a run

(***************************************************************************)
(* Python values.                                                          *)
(***************************************************************************)
None == [type |-> "NoneType", val |-> <<>>]
Str(s) == [type |-> "str", val |-> s]
IsNone(v) == v.type = "NoneType"

\* isinstance(v, str): bs4's NavigableString is a subclass of str
IsStr(v) == v.type \in {"str", "NavigableString"}
IsDatetime(v) == v.type = "datetime"

(***************************************************************************)
(* Characters.  "U+0663" stands for the single character ARABIC-INDIC      *)
(* DIGIT THREE: a decimal digit for the regex class \d and for int(), but  *)
(* not a member of the ASCII ranges [0-9] and [1-9].                       *)
(***************************************************************************)
AsciiDigits == {"0", "1", "2", "3", "4", "5", "6", "7", "8", "9"}
UnicodeDigits == AsciiDigits \cup {"U+0663"}
Whitespace == {" ", "\n"}

DigitValue(c) ==
    CASE c = "0" -> 0 [] c = "1" -> 1 [] c = "2" -> 2 [] c = "3" -> 3
      [] c = "4" -> 4 [] c = "5" -> 5 [] c = "6" -> 6 [] c = "7" -> 7
      [] c = "8" -> 8 [] c = "9" -> 9 [] c = "U+0663" -> 3

\* F applied to the value of x: x is evaluated once, however often F uses it
With(x, F(_)) == [v \in {x} |-> F(v)][x]

\* s[i..j] as a sequence (empty when j < i)
Slice(s, i, j) == SubSeq(s, i, j)

\* str.strip(): drop leading and trailing whitespace
strip(s) ==
    With(s, LAMBDA t :
        With({k \in 1..Len(t) : t[k] \notin Whitespace}, LAMBDA keep :
            IF keep = {} THEN <<>>
            ELSE Slice(t, CHOOSE k \in keep : \A x \in keep : k <= x,
                          CHOOSE k \in keep : \A x \in keep : k >= x)))

\* int(): decimal value of a digit string; surrounding whitespace is ignored
RECURSIVE IntOfDigits(_)
IntOfDigits(t) ==
    IF t = <<>> THEN 0
    ELSE 10 * IntOfDigits(Slice(t, 1, Len(t) - 1)) + DigitValue(t[Len(t)])

int(t) == IntOfDigits(strip(t))

(***************************************************************************)
(* datetime.strptime(date_str, '%m.%d.%Y').  _strptime compiles the format *)
(* to the regex                                                            *)
(*   (?P<m>1[0-2]|0[1-9]|[1-9])\.(?P<d>3[0-1]|[1-2]\d|0[1-9]|[1-9]| [1-9]) *)
(*   \.(?P<Y>\d\d\d\d)                                                     *)
(* matches it at the start of the text, rejects text left over after the   *)
(* match, and builds a date from the three groups.                         *)
(***************************************************************************)
NonZero == AsciiDigits \ {"0"}

\* mutant: the month takes two digits only
MatchMonth_two_digits(t) ==
    \/ Len(t) = 2 /\ t[1] = "1" /\ t[2] \in {"0", "1", "2"}
    \/ Len(t) = 2 /\ t[1] = "0" /\ t[2] \in NonZero

\* (?P<m>1[0-2]|0[1-9]|[1-9])
MatchMonth(t) ==
    \/ Len(t) = 2 /\ t[1] = "1" /\ t[2] \in {"0", "1", "2"}
    \/ Len(t) = 2 /\ t[1] = "0" /\ t[2] \in NonZero
    \/ Len(t) = 1 /\ t[1] \in NonZero

\* (?P<d>3[0-1]|[1-2]\d|0[1-9]|[1-9]| [1-9])
MatchDay(t) ==
    \/ Len(t) = 2 /\ t[1] = "3" /\ t[2] \in {"0", "1"}
    \/ Len(t) = 2 /\ t[1] \in {"1", "2"} /\ t[2] \in UnicodeDigits
    \/ Len(t) = 2 /\ t[1] = "0" /\ t[2] \in NonZero
    \/ Len(t) = 1 /\ t[1] \in NonZero
    \/ Len(t) = 2 /\ t[1] = " " /\ t[2] \in NonZero

\* (?P<Y>\d\d\d\d)
MatchYear(t) == Len(t) = 4 /\ \A k \in 1..4 : t[k] \in UnicodeDigits

\* The positions <<i, j>> of the two "." of a match of the whole text.  No
\* group can contain ".", so the text has at most one match, and it is the
\* one the regex engine finds.
FormatMatches(s) ==
    {p \in {q \in (1..Len(s)) \X (1..Len(s)) : q[1] < q[2]} :
        /\ p[1] < p[2]
        /\ s[p[1]] = "."
        /\ s[p[2]] = "."
        /\ MatchMonth(Slice(s, 1, p[1] - 1))
        /\ MatchDay(Slice(s, p[1] + 1, p[2] - 1))
        /\ MatchYear(Slice(s, p[2] + 1, Len(s)))}

IsLeap(y) == (y % 4 = 0) /\ ((y % 100 # 0) \/ (y % 400 = 0))

DaysInMonth(y, m) ==
    IF m = 2 THEN (IF IsLeap(y) THEN 29 ELSE 28)
    ELSE IF m \in {4, 6, 9, 11} THEN 30 ELSE 31

MINYEAR == 1

\* datetime(year, month, day) raises ValueError outside these ranges
ValidDate(y, m, d) ==
    /\ y >= MINYEAR
    /\ m \in 1..12
    /\ d \in 1..DaysInMonth(y, m)

DateTime(y, m, d, tz) ==
    [type |-> "datetime",
     val  |-> [year |-> y, month |-> m, day |-> d, hour |-> 0, minute |-> 0,
               second |-> 0, tzinfo |-> tz]]

\* The result of a call: a value, or the exception it raised.
Return(v) == [raised |-> "none", value |-> v]
Raise(e) == [raised |-> e, value |-> None]

strptime(s) ==
    With(s, LAMBDA t :
        With(FormatMatches(t), LAMBDA found :
            IF found = {} THEN Raise("ValueError")
            ELSE LET p == CHOOSE q \in found : TRUE
                     m == int(Slice(t, 1, p[1] - 1))
                     d == int(Slice(t, p[1] + 1, p[2] - 1))
                     y == int(Slice(t, p[2] + 1, Len(t)))
                 IN  IF ValidDate(y, m, d) THEN Return(DateTime(y, m, d, "naive"))
                     ELSE Raise("ValueError")))

\* datetime.replace(tzinfo=timezone.utc)
replace_tzinfo(dt, tz) ==
    [type |-> "datetime", val |-> [dt.val EXCEPT !.tzinfo = tz]]

(***************************************************************************)
(* The parsed document.  A node of the tree is a Tag, with a name, its     *)
(* attributes (class is the set of its class tokens) and its children, or  *)
(* a NavigableString holding text.                                         *)
(***************************************************************************)
Text(s) == [type |-> "NavigableString", val |-> s]
Tag(name, attrs, contents) ==
    [type |-> "Tag", name |-> name, attrs |-> attrs, contents |-> contents]
IsTag(n) == n.type = "Tag"

\* Tag.descendants: every node below el, in document order
RECURSIVE descendants(_)
RECURSIVE DescendantsOfAll(_)
DescendantsOfAll(nodes) ==
    IF nodes = <<>> THEN <<>>
    ELSE LET n == Head(nodes)
         IN  <<n>> \o (IF IsTag(n) THEN descendants(n) ELSE <<>>)
                   \o DescendantsOfAll(Tail(nodes))
descendants(el) == DescendantsOfAll(el.contents)

\* Tag.find(name, class_=cls): the first descendant tag of that name that
\* has cls among its class tokens, None when there is none
find(el, name, cls) ==
    With(descendants(el), LAMBDA d :
        With({k \in 1..Len(d) : /\ IsTag(d[k])
                                /\ d[k].name = name
                                /\ cls \in d[k].attrs.class},
             LAMBDA hits :
                IF hits = {} THEN None
                ELSE d[CHOOSE k \in hits : \A x \in hits : k <= x]))

\* Tag.get(key): the attribute's value, None when the tag does not have it
get(el, key) ==
    IF key \in DOMAIN el.attrs THEN Str(el.attrs[key]) ELSE None

\* Tag.string: the single NavigableString child, or the .string of the
\* single child tag; None when the tag has no child or several children
RECURSIVE string(_)
string(el) ==
    IF Len(el.contents) # 1 THEN None
    ELSE IF IsTag(el.contents[1]) THEN string(el.contents[1])
    ELSE el.contents[1]

\* mutant: every row passes the filter
HasPublished_any(tr) == TRUE

\* soup("tr"): the document is modelled by the sequence of its <tr> tags
\* gen_entries yields those in which a span of class ep-published is found
HasPublished(tr) == ~IsNone(find(tr, "span", "ep-published"))

gen_entries(doc) == SelectSeq(doc, HasPublished)

\* mutant: the attributes are not validated
Info_unvalidated(id, title, description, enc, date) ==
    Return([type |-> "Info", id |-> id, title |-> title,
            description |-> description, enc |-> enc, date |-> date])

\* mutant: the description is not validated
Info_any_description(id, title, description, enc, date) ==
    IF IsStr(id) /\ IsStr(title) /\ IsStr(enc) /\ IsDatetime(date)
    THEN Return([type |-> "Info", id |-> id, title |-> title,
                 description |-> description, enc |-> enc, date |-> date])
    ELSE Raise("TypeError")

(***************************************************************************)
(* Info: every attribute is validated by instance_of on construction.      *)
(***************************************************************************)
Info(id, title, description, enc, date) ==
    IF /\ IsStr(id)
       /\ IsStr(title)
       /\ IsStr(description)
       /\ IsStr(enc)
       /\ IsDatetime(date)
    THEN Return([type |-> "Info", id |-> id, title |-> title,
                 description |-> description, enc |-> enc, date |-> date])
    ELSE Raise("TypeError")

\* li.find("span", class_="ep-published").string.strip(), then strptime and
\* replace(tzinfo=timezone.utc)
extract_date(tr) ==
    With(find(tr, "span", "ep-published"), LAMBDA span :
        IF IsNone(span) THEN Raise("AttributeError")
        ELSE IF IsNone(string(span)) THEN Raise("AttributeError")
        ELSE With(strptime(strip(string(span).val)), LAMBDA parsed :
                IF parsed.raised # "none" THEN parsed
                ELSE Return(replace_tzinfo(parsed.value, "UTC"))))

extract_info(tr) ==
    With(find(tr, "a", "ep-item"), LAMBDA item :
    With(find(tr, "h3", "ep-row-title"), LAMBDA h3 :
    With(find(tr, "p", "ep-row-desc"), LAMBDA p :
        IF IsNone(item) THEN Raise("AttributeError")
        ELSE IF IsNone(h3) THEN Raise("AttributeError")
        ELSE IF IsNone(p) THEN Raise("AttributeError")
        ELSE With(extract_date(tr), LAMBDA date :
                IF date.raised # "none" THEN date
                ELSE With(find(tr, "a", "play-btn"), LAMBDA play :
                        IF IsNone(play) THEN Raise("AttributeError")
                        ELSE Info(get(item, "href"), string(h3), string(p),
                                  get(play, "data-mp3"), date.value))))))

(***************************************************************************)
(* Module-level constants of make_feed.py.                                 *)
(***************************************************************************)
BASE_URL == <<"h", "t", "t", "p", "s", ":", "/", "/", "p", "o", "d", "c",
              "a", "s", "t", ".", "a", "p", "p">>
PG_URL == "https://podcast.app/paul-graham-essays-audio-p1755465/?limit=250&offset=0"
FEED_PATH == "feed/pg.rss"

(***************************************************************************)
(* The feed generator.                                                     *)
(***************************************************************************)
create_base_feed ==
    [type        |-> "FeedGenerator",
     id          |-> PG_URL,
     title       |-> "Paul Graham Essays (Audio)",
     link        |-> [href |-> "https://podcast.app/paul-graham-essays-audio-p1755465/",
                      rel  |-> "self"],
     logo        |-> "https://podcast-api-images.s3.amazonaws.com/podcast_logo_1755465_300x300.jpg",
     language    |-> "en",
     description |-> "PG Podcast",
     docs        |-> "http://www.rssboard.org/rss-specification",
     author      |-> None,
     entries     |-> <<>>]

\* arrow.utcnow().datetime at the k-th reading of the wall clock
utcnow(k) ==
    [type |-> "datetime",
     val  |-> [year |-> 2026, month |-> 11, day |-> 3, hour |-> 10,
               minute |-> 0, second |-> k, tzinfo |-> "UTC"]]

\* mutant: updated is the record's date
feed_entry_updated_is_date(g, i, k) ==
    [id        |-> BASE_URL \o i.id.val,
     title     |-> i.title.val,
     link      |-> [href |-> i.enc.val, rel |-> "alternate"],
     author    |-> g.author,
     content   |-> i.description.val,
     updated   |-> i.date,
     published |-> i.date]

\* The entry add_feed_item builds from i at wall-clock reading k
feed_entry(g, i, k) ==
    [id        |-> BASE_URL \o i.id.val,
     title     |-> i.title.val,
     link      |-> [href |-> i.enc.val, rel |-> "alternate"],
     author    |-> g.author,
     content   |-> i.description.val,
     updated   |-> utcnow(k),
     published |-> i.date]

\* mutant: add_entry with its default order, "prepend"
add_entry_prepend(entries, fe) == <<fe>> \o entries

\* fg.add_entry(order="append") puts the new entry after the existing ones
add_entry(entries, fe) == Append(entries, fe)

add_feed_item(g, i, k) ==
    [g EXCEPT !.entries = add_entry(g.entries, feed_entry(g, i, k))]

\* fg.rss_file(FEED_PATH, pretty=True): the file is overwritten with the
\* channel data and one item per entry, in the order of the entry list
rss_file(g) ==
    [exists  |-> TRUE,
     channel |-> [f \in DOMAIN g \ {"type", "entries"} |-> g[f]],
     items   |-> g.entries]

\* mutant: only the 2xx statuses count as ok
ok_only_2xx(resp) == 200 <= resp.status_code /\ resp.status_code < 300

\* rq.Response.ok: raise_for_status() raises for 400 <= status_code < 600
ok(resp) == ~(400 <= resp.status_code /\ resp.status_code < 600)

resp_report(resp) == <<resp.status_code, resp.reason>>

(***************************************************************************)
(* Inputs: the pages the server can return.                                *)
(***************************************************************************)
\* the attributes of a tag that has a class and one other attribute
Attrs(classes, key, value) == ("class" :> classes) @@ (key :> value)

Td(contents) == Tag("td", [class |-> {}], contents)

\* A listing row: the item link, title and description in one cell, the
\* published marker and the play button in another.  Each argument is the
\* sequence of nodes (possibly empty) to put in that place.
MkRow(item, h3, p, span, play) ==
    Tag("tr", [class |-> {}], <<Td(item \o h3 \o p), Td(span \o play)>>)

ItemA == Tag("a", Attrs({"ep-item"}, "href", <<"/", "e", "1">>), <<>>)
ItemB == Tag("a", Attrs({"ep-item", "link"}, "href", <<"/", "e", "2">>), <<>>)
ItemNoHref == Tag("a", [class |-> {"ep-item"}], <<>>)
ItemOtherClass == Tag("a", Attrs({"link"}, "href", <<"/", "x">>), <<>>)

TitleA == Tag("h3", [class |-> {"ep-row-title"}], <<Text(<<"T", "1">>)>>)
\* <h3 class="ep-row-title"><b>T2</b></h3>
TitleB == Tag("h3", [class |-> {"ep-row-title"}],
              <<Tag("b", [class |-> {}], <<Text(<<"T", "2">>)>>)>>)
\* <h3 class="ep-row-title"></h3>
TitleEmpty == Tag("h3", [class |-> {"ep-row-title"}], <<>>)
\* <h3 class="ep-row-title">T<b>3</b></h3>
TitleMixed == Tag("h3", [class |-> {"ep-row-title"}],
                  <<Text(<<"T">>), Tag("b", [class |-> {}], <<Text(<<"3">>)>>)>>)

DescA == Tag("p", [class |-> {"ep-row-desc"}], <<Text(<<"D", "1">>)>>)
DescB == Tag("p", [class |-> {"ep-row-desc"}], <<Text(<<" ">>)>>)
\* <p class="ep-row-desc"></p>
DescEmpty == Tag("p", [class |-> {"ep-row-desc"}], <<>>)
\* <p class="ep-row-desc">D<br/>3</p>
DescMixed == Tag("p", [class |-> {"ep-row-desc"}],
                 <<Text(<<"D">>), Tag("br", [class |-> {}], <<>>), Text(<<"3">>)>>)

Published(text) == Tag("span", [class |-> {"ep-published"}], <<Text(text)>>)
PublishedEmpty == Tag("span", [class |-> {"ep-published"}], <<>>)
\* the marker class on a tag that is not a span
PublishedDiv == Tag("div", [class |-> {"ep-published"}],
                    <<Text(<<"0", "3", ".", "1", "5", ".", "2", "0", "2", "4">>)>>)

PlayA == Tag("a", Attrs({"play-btn"}, "data-mp3", <<"a", ".", "m", "p", "3">>), <<>>)
PlayB == Tag("a", Attrs({"btn", "play-btn"}, "data-mp3", <<"b", ".", "m", "p", "3">>), <<>>)
PlayNoMp3 == Tag("a", Attrs({"play-btn"}, "href", <<"/", "p">>), <<>>)

Date1 == <<"0", "3", ".", "1", "5", ".", "2", "0", "2", "4">>
Date2 == <<" ", "0", "1", ".", "0", "2", ".", "2", "0", "2", "3", "\n">>
DateIso == <<"2", "0", "2", "4", "-", "0", "3", "-", "1", "5">>

\* Rows from which extract_info builds an Info.  RowA is the more recent
\* episode; RowB has the same id.
RowA == MkRow(<<ItemA>>, <<TitleA>>, <<DescA>>, <<Published(Date1)>>, <<PlayA>>)
RowB == MkRow(<<ItemOtherClass, ItemA>>, <<TitleB>>, <<DescB>>,
              <<Published(Date2)>>, <<PlayB>>)
GoodRows == {RowA, RowB}

\* Rows in which no span of class ep-published is found
HeaderRow == Tag("tr", [class |-> {}],
                 <<Tag("th", [class |-> {}], <<Text(<<"T">>)>>)>>)
RowDivMarker == MkRow(<<ItemB>>, <<TitleA>>, <<DescA>>, <<PublishedDiv>>, <<PlayA>>)
UnmarkedRows == {HeaderRow, RowDivMarker}

RowNoPlay == MkRow(<<ItemA>>, <<TitleA>>, <<DescA>>, <<Published(Date1)>>, <<>>)

\* Rows with the marker in which one thing extract_info needs is missing
BadRows ==
    {MkRow(<<>>, <<TitleA>>, <<DescA>>, <<Published(Date1)>>, <<PlayA>>),
     MkRow(<<ItemNoHref>>, <<TitleA>>, <<DescA>>, <<Published(Date1)>>, <<PlayA>>),
     MkRow(<<ItemA>>, <<TitleMixed>>, <<DescA>>, <<Published(Date1)>>, <<PlayA>>),
     MkRow(<<ItemA>>, <<TitleA>>, <<DescEmpty>>, <<Published(Date1)>>, <<PlayA>>),
     MkRow(<<ItemA>>, <<TitleA>>, <<DescA>>, <<Published(DateIso)>>, <<PlayA>>),
     RowNoPlay,
     MkRow(<<ItemA>>, <<TitleA>>, <<DescA>>, <<Published(Date1)>>, <<PlayNoMp3>>)}

Rows == GoodRows \cup UnmarkedRows \cup BadRows

\* Every sequence of at most n rows
RECURSIVE SeqsUpTo(_, _)
SeqsUpTo(S, n) ==
    IF n = 0 THEN {<<>>}
    ELSE LET shorter == SeqsUpTo(S, n - 1)
         IN  shorter \cup {Append(d, r) : d \in shorter, r \in S}

Docs == SeqsUpTo(Rows, MaxRows)

\* Status codes on both sides of the boundaries of each status class
StatusCodes == {100, 199, 200, 204, 299, 300, 304, 399, 400, 404, 499, 500,
                503, 599, 600}

Reason(code) ==
    CASE code = 200 -> "OK"
      [] code = 304 -> "Not Modified"
      [] code = 404 -> "Not Found"
      [] code = 503 -> "Service Unavailable"
      [] OTHER -> ""

Response(code, doc) ==
    [status_code |-> code, reason |-> Reason(code), text |-> doc]

\* The responses of the server: any status with a page of at most one row,
\* and the statuses 200 and 503 with every page
Responses ==
    {Response(c, d) : c \in StatusCodes, d \in SeqsUpTo(Rows, 1)}
        \cup {Response(c, d) : c \in {200, 503}, d \in Docs}

\* No response is received (the request fails)
NoResponse == Response(0, <<>>)

\* FEED_PATH before the run: absent, or the feed a previous run wrote
NoFile == [exists |-> FALSE]
OldFile ==
    LET fe == feed_entry(create_base_feed, extract_info(RowB).value, 0)
        old == [fe EXCEPT !.updated.val.day = 2]
    IN  rss_file([create_base_feed EXCEPT !.entries = <<old>>])

(***************************************************************************)
(* main()                                                                  *)
(***************************************************************************)
Call(fn, n) == [fn |-> fn, row |-> n]
Line(level, msg, arg) == [level |-> level, msg |-> msg, arg |-> arg]

\* An uncaught exception ends the interpreter with status 1.
Uncaught(e) ==
    /\ exc' = e
    /\ exit_code' = 1
    /\ pc' = "done"

\* The interpreter is about to call main(); the server answers with one of S
InitWith(S) ==
    /\ pc = "start"
    /\ server \in S
    /\ resp_pg = NoResponse
    /\ fg = None
    /\ cursor = 0
    /\ li = None
    /\ info = None
    /\ clock = 0
    /\ file0 \in {NoFile, OldFile}
    /\ file = file0
    /\ log = <<>>
    /\ calls = <<>>
    /\ exc = "none"
    /\ exit_code = -1

Init == InitWith(Responses \cup {NoResponse})

\* resp_pg = get_release_pages(): rq.get returns a response, or raises when
\* no response is received
GetReleasePages ==
    /\ pc = "start"
    /\ calls' = Append(calls, Call("get_release_pages", 0))
    /\ IF server # NoResponse
       THEN /\ resp_pg' = server
            /\ pc' = "check"
            /\ UNCHANGED <<exc, exit_code>>
       ELSE /\ Uncaught("ConnectionError")
            /\ UNCHANGED resp_pg
    /\ UNCHANGED <<server, fg, cursor, li, info, clock, file, file0, log>>

\* if not resp_pg.ok: logger.critical(...); return 1
FetchFailed ==
    /\ pc = "check"
    /\ ~ok(resp_pg)
    /\ log' = Append(log, Line("CRITICAL", "PG pages download failed",
                               resp_report(resp_pg)))
    /\ exit_code' = 1
    /\ pc' = "done"
    /\ UNCHANGED <<server, resp_pg, fg, cursor, li, info, clock, file, file0, calls, exc>>

\* mutant: the feed is built without looking at resp_pg.ok
CreateBaseFeed_unchecked ==
    /\ pc = "check"
    /\ fg' = create_base_feed
    /\ calls' = Append(calls, Call("create_base_feed", 0))
    /\ log' = log \o <<Line("INFO", "Download pages retrieved.", <<>>),
                       Line("INFO", "Base feed generator created", <<>>)>>
    /\ pc' = "loop"
    /\ UNCHANGED <<server, resp_pg, cursor, li, info, clock, file, file0, exc, exit_code>>

\* fg = create_base_feed()
CreateBaseFeed ==
    /\ pc = "check"
    /\ ok(resp_pg)
    /\ fg' = create_base_feed
    /\ calls' = Append(calls, Call("create_base_feed", 0))
    /\ log' = log \o <<Line("INFO", "Download pages retrieved.", <<>>),
                       Line("INFO", "Base feed generator created", <<>>)>>
    /\ pc' = "loop"
    /\ UNCHANGED <<server, resp_pg, cursor, li, info, clock, file, file0, exc, exit_code>>

\* for li in gen_entries(resp_pg): the generator yields its next row
NextEntry ==
    /\ pc = "loop"
    /\ cursor < Len(gen_entries(resp_pg.text))
    /\ cursor' = cursor + 1
    /\ li' = gen_entries(resp_pg.text)[cursor + 1]
    /\ pc' = "extract"
    /\ UNCHANGED <<server, resp_pg, fg, info, clock, file, file0, log, calls, exc, exit_code>>

\* mutant: a row that fails to extract is skipped
ExtractInfo_skip_failed ==
    /\ pc = "extract"
    /\ calls' = Append(calls, Call("extract_info", cursor))
    /\ \/ /\ extract_info(li).raised = "none"
          /\ info' = extract_info(li).value
          /\ pc' = "add"
       \/ /\ extract_info(li).raised # "none"
          /\ pc' = "loop"
          /\ UNCHANGED info
    /\ UNCHANGED <<server, resp_pg, fg, cursor, li, clock, file, file0, log, exc, exit_code>>

\* extract_info(li): an exception is caught nowhere
ExtractInfo ==
    /\ pc = "extract"
    /\ calls' = Append(calls, Call("extract_info", cursor))
    /\ \/ /\ extract_info(li).raised = "none"
          /\ info' = extract_info(li).value
          /\ pc' = "add"
          /\ UNCHANGED <<exc, exit_code>>
       \/ /\ extract_info(li).raised # "none"
          /\ Uncaught(extract_info(li).raised)
          /\ UNCHANGED info
    /\ UNCHANGED <<server, resp_pg, fg, cursor, li, clock, file, file0, log>>

\* add_feed_item(fg, info), reading the wall clock for the entry's updated
AddFeedItem ==
    /\ pc = "add"
    /\ \E k \in clock..MaxTicks :
          /\ clock' = k
          /\ fg' = add_feed_item(fg, info, k)
    /\ calls' = Append(calls, Call("add_feed_item", cursor))
    /\ pc' = "loop"
    /\ UNCHANGED <<server, resp_pg, cursor, li, info, file, file0, log, exc, exit_code>>

\* mutant: the loop can end before the generator is exhausted
EntriesDone_early ==
    /\ pc = "loop"
    /\ cursor <= Len(gen_entries(resp_pg.text))
    /\ log' = Append(log, Line("INFO", "Articles added to feed", <<>>))
    /\ pc' = "write"
    /\ UNCHANGED <<server, resp_pg, fg, cursor, li, info, clock, file, file0, calls, exc, exit_code>>

\* The generator is exhausted: the list comprehension is complete
EntriesDone ==
    /\ pc = "loop"
    /\ cursor = Len(gen_entries(resp_pg.text))
    /\ log' = Append(log, Line("INFO", "Articles added to feed", <<>>))
    /\ pc' = "write"
    /\ UNCHANGED <<server, resp_pg, fg, cursor, li, info, clock, file, file0, calls, exc, exit_code>>

\* write_feed(fg): rss_file overwrites FEED_PATH, or raises when the file
\* cannot be created, leaving the path as it was
WriteFeed ==
    /\ pc = "write"
    /\ calls' = Append(calls, Call("write_feed", 0))
    /\ \/ /\ file' = rss_file(fg)
          /\ pc' = "written"
          /\ UNCHANGED <<exc, exit_code>>
       \/ /\ Uncaught("OSError")
          /\ UNCHANGED file
    /\ UNCHANGED <<server, resp_pg, fg, cursor, li, info, clock, file0, log>>

\* main() returns None and sys.exit(None) ends the process with status 0
Exit ==
    /\ pc = "written"
    /\ log' = Append(log, Line("INFO", "Feed written to disk", <<>>))
    /\ exit_code' = 0
    /\ pc' = "done"
    /\ UNCHANGED <<server, resp_pg, fg, cursor, li, info, clock, file, file0, calls, exc>>

Next ==
    \/ GetReleasePages
    \/ FetchFailed
    \/ CreateBaseFeed
    \/ NextEntry
    \/ ExtractInfo
    \/ AddFeedItem
    \/ EntriesDone
    \/ WriteFeed
    \/ Exit

Spec == Init /\ [][Next]_vars

\* The runs in which main() keeps running: it is the only thread, so the
\* statement that can run next does run.  The pages are those made of two
\* rows that extract, a header row and a row without play button.
FairResponses ==
    {Response(c, d) : c \in {200, 503},
                      d \in SeqsUpTo({RowA, RowB, HeaderRow, RowNoPlay}, MaxRows)}

InitFair == InitWith(FairResponses \cup {NoResponse})

FairSpec == InitFair /\ [][Next]_vars /\ WF_vars(Next)

(***************************************************************************)
(* extract_info on its own: main() at the point where gen_entries has      *)
(* yielded the only row of a one-row page, for a wider set of rows.        *)
(***************************************************************************)
MonthTexts == {<<"0", "3">>, <<"3">>, <<"0", "2">>, <<"0", "4">>, <<"1", "2">>,
               <<"1", "3">>, <<"0", "0">>, <<"0">>, <<"U+0663">>,
               <<"2", "0", "2", "4">>}
DayTexts == {<<"1", "5">>, <<"5">>, <<"0", "5">>, <<" ", "5">>, <<"2", "9">>,
             <<"3", "0">>, <<"3", "1">>, <<"3", "2">>, <<"0", "0">>,
             <<"1", "U+0663">>, <<"U+0663">>, <<"0", "3">>}
YearTexts == {<<"2", "0", "2", "4">>, <<"2", "0", "2", "3">>, <<"2", "4">>,
              <<"0", "0", "0", "0">>, <<"0", "0", "0", "1">>,
              <<"2", "0", "2", "4", "5">>, <<"2", "0", "2", "U+0663">>,
              <<"1", "5">>}
Separators == {<<".">>, <<"-">>}
Leading == {<<>>, <<" ">>}
Trailing == {<<>>, <<"\n">>, <<"x">>, <<" ", "x">>}

\* A text of the published marker: a month, a day and a year text with
\* separators between them and text around them
DateText(l, m, s1, d, s2, y, t) == l \o m \o s1 \o d \o s2 \o y \o t

ItemForms == {<<>>, <<ItemA>>, <<ItemNoHref>>, <<ItemOtherClass, ItemB>>,
              <<ItemOtherClass>>}
TitleForms == {<<>>, <<TitleA>>, <<TitleB>>, <<TitleEmpty>>, <<TitleMixed>>}
DescForms == {<<>>, <<DescA>>, <<DescB>>, <<DescEmpty>>, <<DescMixed>>}
PublishedForms == {<<Published(Date1)>>, <<Published(Date2)>>,
                   <<Published(DateIso)>>, <<PublishedEmpty>>,
                   <<PublishedDiv, Published(Date1)>>}
PlayForms == {<<>>, <<PlayA>>, <<PlayB>>, <<PlayNoMp3>>}

\* main() with li the only row of the page, about to call extract_info
AtExtract(row) ==
    /\ pc = "extract"
    /\ server = Response(200, <<row>>)
    /\ resp_pg = Response(200, <<row>>)
    /\ li = gen_entries(<<row>>)[1]
    /\ fg = create_base_feed
    /\ cursor = 1
    /\ info = None
    /\ clock = 0
    /\ file0 = NoFile
    /\ file = file0
    /\ log = <<Line("INFO", "Download pages retrieved.", <<>>),
               Line("INFO", "Base feed generator created", <<>>)>>
    /\ calls = <<Call("get_release_pages", 0), Call("create_base_feed", 0)>>
    /\ exc = "none"
    /\ exit_code = -1

InitExtract ==
    \/ \E i \in ItemForms, h \in TitleForms, p \in DescForms,
          s \in PublishedForms, b \in PlayForms :
          AtExtract(MkRow(i, h, p, s, b))
    \/ \E l \in Leading, m \in MonthTexts, s1 \in Separators, d \in DayTexts,
          s2 \in Separators, y \in YearTexts, t \in Trailing :
          AtExtract(MkRow(<<ItemA>>, <<TitleA>>, <<DescA>>,
                          <<Published(DateText(l, m, s1, d, s2, y, t))>>, <<PlayA>>))

NextExtract == ExtractInfo

SpecExtract == InitExtract /\ [][NextExtract]_vars

(***************************************************************************)
(* Helpers for stating the properties.                                     *)
(***************************************************************************)
ExtractionErrors == {"AttributeError", "TypeError", "ValueError"}

Fetched == pc # "start" /\ exc # "ConnectionError"
Matched == gen_entries(resp_pg.text)
Started(fn) == \E k \in 1..Len(calls) : calls[k].fn = fn
CallsOf(fn) == SelectSeq(calls, LAMBDA c : c.fn = fn)
Entries == IF IsNone(fg) THEN <<>> ELSE fg.entries

\* Some tag below tr has the class token cls
Carries(tr, cls) ==
    \E k \in 1..Len(descendants(tr)) :
        IsTag(descendants(tr)[k]) /\ cls \in descendants(tr)[k].attrs.class

\* The tag holds exactly one text: it and every tag below it has exactly one
\* child.  TextOf is that text.
SingleText(el) ==
    /\ el.contents # <<>>
    /\ \A k \in 1..Len(descendants(el)) :
          IsTag(descendants(el)[k]) => Len(descendants(el)[k].contents) = 1
    /\ Len(el.contents) = 1
TextOf(el) == descendants(el)[Len(descendants(el))].val

\* C1: a row yielded by gen_entries on which extract_info fails, at any
\* position of the page and after any number of appended entries, ends the
\* run with a non-zero status; write_feed is never called and the feed file
\* stays as it was before the run.
C1_ExtractFailureAborts ==
    (Fetched /\ \E k \in 1..Len(Matched) : extract_info(Matched[k]).raised # "none")
        => /\ ~Started("write_feed")
           /\ file = file0
           /\ pc \notin {"write", "written"}
           /\ pc = "done" => exit_code = 1
           /\ \A k \in 1..Len(Matched) :
                 (extract_info(Matched[k]).raised # "none" /\ cursor = k
                    /\ pc \notin {"extract"})
                    => (pc = "done" /\ exc \in ExtractionErrors /\ Len(Entries) = k - 1)

C1_Witness ==
    /\ pc = "done"
    /\ exc \in ExtractionErrors
    /\ exit_code = 1
    /\ Len(Entries) = 1
    /\ file = OldFile

\* C2: when the response is an error response, main returns 1 having
\* created no feed, selected and extracted no row and not called
\* write_feed; the feed file is not touched.
C2_FetchFailureReturnsOne ==
    (Fetched /\ resp_pg.status_code \in 400..599)
        => /\ IsNone(fg)
           /\ cursor = 0
           /\ IsNone(li)
           /\ IsNone(info)
           /\ calls = <<Call("get_release_pages", 0)>>
           /\ file = file0
           /\ pc \in {"check", "done"}
           /\ pc = "done" => (exit_code = 1 /\ exc = "none")

C2_Witness ==
    /\ pc = "done"
    /\ resp_pg.status_code = 503
    /\ Len(resp_pg.text) = MaxRows
    /\ exit_code = 1
    /\ file = OldFile

\* The fetch was treated as a success: main went on to build the feed
TreatedAsSuccess == Started("create_base_feed")
\* The fetch was treated as fatal: main returned 1 and produced no feed
TreatedAsFatal ==
    /\ pc = "done"
    /\ exit_code = 1
    /\ ~Started("create_base_feed")
    /\ file = file0

\* C3 as stated: the fetch is a success exactly for the statuses 200-299;
\* every other status, 1xx and 3xx included, is fatal.
C3_Original ==
    (Fetched /\ pc # "check")
        => IF resp_pg.status_code \in 200..299 THEN TreatedAsSuccess
           ELSE TreatedAsFatal

\* C3, amended: the fetch is fatal exactly for the statuses 400-599; every
\* other status, 1xx and 3xx included, is a success and the run goes on.
C3_SuccessUnlessErrorStatus ==
    (Fetched /\ pc # "check")
        => IF resp_pg.status_code \in 400..599 THEN TreatedAsFatal
           ELSE TreatedAsSuccess

C3_Witness ==
    /\ pc = "done"
    /\ resp_pg.status_code = 304
    /\ exit_code = 0
    /\ file # file0
    /\ Len(file.items) = 1

(***************************************************************************)
(* The date texts, stated by value rather than by pattern.                 *)
(***************************************************************************)
AllIn(t, S) == \A k \in 1..Len(t) : t[k] \in S
Dots(t) == {k \in 1..Len(t) : t[k] = "."}
FirstDot(t) == CHOOSE k \in Dots(t) : \A x \in Dots(t) : k <= x
LastDot(t) == CHOOSE k \in Dots(t) : \A x \in Dots(t) : k >= x
MonthPart(t) == Slice(t, 1, FirstDot(t) - 1)
DayPart(t) == Slice(t, FirstDot(t) + 1, LastDot(t) - 1)
YearPart(t) == Slice(t, LastDot(t) + 1, Len(t))

\* two-digit month, ".", two-digit day, ".", four-digit year
StrictForm(t) ==
    /\ Len(t) = 10
    /\ t[3] = "." /\ t[6] = "."
    /\ \A k \in {1, 2, 4, 5, 7, 8, 9, 10} : t[k] \in AsciiDigits

\* A month 1-12 in one or two ASCII digits
MonthOk(t) == Len(t) \in {1, 2} /\ AllIn(t, AsciiDigits) /\ int(t) \in 1..12

\* A day 1-31 in one or two digits; a single digit may follow a space, and
\* the second digit of 10-29 may be any decimal digit
DayOk(t) ==
    \/ Len(t) \in {1, 2} /\ AllIn(t, AsciiDigits) /\ int(t) \in 1..31
    \/ Len(t) = 2 /\ t[1] = " " /\ t[2] \in AsciiDigits /\ int(t) \in 1..9
    \/ Len(t) = 2 /\ t[1] \in {"1", "2"} /\ t[2] \in UnicodeDigits

\* A year in exactly four decimal digits
YearOk(t) == Len(t) = 4 /\ AllIn(t, UnicodeDigits)

\* The text names a day of the calendar in the form strptime takes
Accepted(t) ==
    /\ Cardinality(Dots(t)) = 2
    /\ MonthOk(MonthPart(t))
    /\ DayOk(DayPart(t))
    /\ YearOk(YearPart(t))
    /\ int(YearPart(t)) >= 1
    /\ int(DayPart(t)) <= DaysInMonth(int(YearPart(t)), int(MonthPart(t)))

\* Midnight UTC of the day the text names
MidnightUTC(t) ==
    [type |-> "datetime",
     val  |-> [year |-> int(YearPart(t)), month |-> int(MonthPart(t)),
               day |-> int(DayPart(t)), hour |-> 0, minute |-> 0, second |-> 0,
               tzinfo |-> "UTC"]]

\* The stripped text of the row's published marker
MarkerText(tr) == strip(TextOf(find(tr, "span", "ep-published")))

\* li is a row in which everything but the date text is as in RowA
DateRow ==
    /\ ~IsNone(li)
    /\ SingleText(find(li, "span", "ep-published"))
    /\ li = MkRow(<<ItemA>>, <<TitleA>>, <<DescA>>,
                  <<Published(TextOf(find(li, "span", "ep-published")))>>, <<PlayA>>)

Extracted == pc # "extract"

\* C4 as stated: the text is accepted only in the form MM.DD.YYYY, a text
\* of that form naming a day of the calendar gives midnight UTC of that day,
\* and any other text makes extract_info fail.
C4_Original ==
    (Extracted /\ DateRow)
        => IF StrictForm(MarkerText(li))
           THEN Accepted(MarkerText(li))
                   => (exc = "none" /\ info.date = MidnightUTC(MarkerText(li)))
           ELSE exc \in ExtractionErrors

\* C4, amended: the text is accepted exactly when it is month "." day "."
\* year with the month in one or two ASCII digits, the day in one or two
\* digits (or a space and a digit), the year in exactly four decimal digits,
\* and names a day of the calendar; it then gives midnight UTC of that day.
\* Every other text makes extract_info fail with ValueError.
C4_LenientDateFormat ==
    (Extracted /\ DateRow)
        => IF Accepted(MarkerText(li))
           THEN /\ exc = "none"
                /\ pc = "add"
                /\ info.date = MidnightUTC(MarkerText(li))
           ELSE /\ exc = "ValueError"
                /\ pc = "done"
                /\ exit_code = 1
                /\ IsNone(info)

C4_Witness ==
    /\ Extracted
    /\ DateRow
    /\ MarkerText(li) = <<"3", ".", "1", "5", ".", "2", "0", "2", "4">>
    /\ exc = "none"
    /\ info.date = DateTime(2024, 3, 15, "UTC")

(***************************************************************************)
(* Rows, stated from the markup.                                           *)
(***************************************************************************)
\* Everything extract_info looks for is in the row: the item link with its
\* href, the title, the description, the marker with an accepted date text
\* and the play button with its data-mp3
Complete(tr) ==
    /\ ~IsNone(find(tr, "a", "ep-item"))
    /\ "href" \in DOMAIN find(tr, "a", "ep-item").attrs
    /\ ~IsNone(find(tr, "h3", "ep-row-title"))
    /\ ~IsNone(find(tr, "p", "ep-row-desc"))
    /\ ~IsNone(find(tr, "span", "ep-published"))
    /\ SingleText(find(tr, "span", "ep-published"))
    /\ Accepted(MarkerText(tr))
    /\ ~IsNone(find(tr, "a", "play-btn"))
    /\ "data-mp3" \in DOMAIN find(tr, "a", "play-btn").attrs

\* The title and the description each hold exactly one text
Worded(tr) ==
    /\ SingleText(find(tr, "h3", "ep-row-title"))
    /\ SingleText(find(tr, "p", "ep-row-desc"))

\* An Info with its five fields populated
Populated(i) ==
    /\ i.type = "Info"
    /\ IsStr(i.id) /\ IsStr(i.title) /\ IsStr(i.description) /\ IsStr(i.enc)
    /\ IsDatetime(i.date)

\* C5 as stated: every matched row that is complete gives an Info with its
\* five fields populated, and an empty description paragraph gives the
\* empty string as description.
C5_Original ==
    (Extracted /\ Complete(li))
        => /\ exc = "none"
           /\ Populated(info)
           /\ find(li, "p", "ep-row-desc").contents = <<>>
                 => info.description.val = <<>>

\* C5, amended: a matched row that is complete gives an Info with its five
\* fields populated exactly when its title and its description each hold
\* exactly one text; otherwise, and so for a description paragraph that is
\* present but empty, Info's validators raise TypeError and the run ends.
C5_CompleteRowNeedsTexts ==
    (Extracted /\ Complete(li))
        => IF Worded(li)
           THEN /\ exc = "none"
                /\ pc = "add"
                /\ Populated(info)
                /\ info.id.val = find(li, "a", "ep-item").attrs["href"]
                /\ info.title.val = TextOf(find(li, "h3", "ep-row-title"))
                /\ info.description.val = TextOf(find(li, "p", "ep-row-desc"))
                /\ info.enc.val = find(li, "a", "play-btn").attrs["data-mp3"]
                /\ info.date = MidnightUTC(MarkerText(li))
           ELSE /\ exc = "TypeError"
                /\ pc = "done"
                /\ exit_code = 1
                /\ IsNone(info)

C5_Witness ==
    /\ Extracted
    /\ Complete(li)
    /\ SingleText(find(li, "h3", "ep-row-title"))
    /\ find(li, "p", "ep-row-desc").contents = <<>>
    /\ exc = "TypeError"

\* C6: only complete records enter the feed.  The Info handed to
\* add_feed_item has its five fields populated, every entry of the feed
\* comes from a row in which nothing is missing, and a row in which an
\* element or attribute is missing ends the run in extract_info, before
\* add_feed_item is called for it.
C6_NoPartialRecord ==
    /\ pc = "add" => Populated(info)
    /\ Len(Entries) <= Len(Matched)
    /\ \A k \in 1..Len(Entries) : Complete(Matched[k]) /\ Worded(Matched[k])
    /\ \A k \in 1..Len(calls) :
          calls[k].fn = "add_feed_item" => Complete(Matched[calls[k].row])
    /\ \A k \in 1..Len(Matched) :
          (~Complete(Matched[k]) /\ cursor = k /\ pc # "extract")
             => (pc = "done" /\ exc \in ExtractionErrors /\ Len(Entries) < k)

C6_Witness ==
    /\ pc = "done"
    /\ Len(Entries) = 1
    /\ cursor = 2
    /\ ~IsNone(find(li, "a", "ep-item"))
    /\ "href" \notin DOMAIN find(li, "a", "ep-item").attrs
    /\ exc = "TypeError"

\* The entry e describes the episode of row tr
EntryOfRow(e, tr) ==
    /\ e.id = BASE_URL \o find(tr, "a", "ep-item").attrs["href"]
    /\ e.title = TextOf(find(tr, "h3", "ep-row-title"))
    /\ e.content = TextOf(find(tr, "p", "ep-row-desc"))
    /\ e.link.href = find(tr, "a", "play-btn").attrs["data-mp3"]
    /\ e.published = MidnightUTC(MarkerText(tr))

RunSucceeded == pc = "done" /\ exit_code = 0

\* C7: the entries of the feed are at every point the entries of the first
\* matched rows, in document order, and all of them once the run succeeds:
\* nothing is reordered, sorted by date or dropped as a duplicate id.
C7_DocumentOrder ==
    /\ Len(Entries) <= Len(Matched)
    /\ \A k \in 1..Len(Entries) : EntryOfRow(Entries[k], Matched[k])
    /\ (pc \in {"write", "written"} \/ RunSucceeded) => Len(Entries) = Len(Matched)
    /\ file # file0 => file.items = Entries

C7_Witness ==
    /\ RunSucceeded
    /\ Len(file.items) = 2
    /\ file.items[1].id = file.items[2].id
    /\ file.items[1].published.val.year < file.items[2].published.val.year

\* C8: a table row with no published marker below it is never yielded by
\* gen_entries, never given to extract_info and never gives an entry, and
\* leaving it out does not fail the run.
C8_UnmarkedRowsSkipped ==
    /\ ~IsNone(li) => Carries(li, "ep-published")
    /\ \A k \in 1..Len(Matched) : Carries(Matched[k], "ep-published")
    /\ Len(CallsOf("extract_info")) <=
          Cardinality({k \in 1..Len(resp_pg.text) :
                          Carries(resp_pg.text[k], "ep-published")})
    /\ (\A k \in 1..Len(resp_pg.text) : ~Carries(resp_pg.text[k], "ep-published"))
          => /\ exc \notin ExtractionErrors
             /\ Entries = <<>>
             /\ ~Started("extract_info")
             /\ (pc = "done" /\ exc = "none" /\ resp_pg.status_code \notin 400..599)
                   => (exit_code = 0 /\ file.items = <<>>)

C8_Witness ==
    /\ RunSucceeded
    /\ Len(resp_pg.text) = 2
    /\ ~Carries(resp_pg.text[1], "ep-published")
    /\ Len(CallsOf("extract_info")) = 1
    /\ Len(file.items) = 1

\* C9: the entry add_feed_item makes of a record has BASE_URL followed by
\* the record's id as its id, the record's enclosure as the href of its
\* link, of relation alternate, the record's description as its content,
\* the record's date as published and the wall-clock reading taken at the
\* call, not the record's date, as updated.
C9_EntryFields ==
    (calls # <<>> /\ calls[Len(calls)].fn = "add_feed_item")
        => LET e == Entries[Len(Entries)]
               n == Len(BASE_URL)
           IN  /\ Len(e.id) = n + Len(info.id.val)
               /\ SubSeq(e.id, 1, n) = BASE_URL
               /\ SubSeq(e.id, n + 1, Len(e.id)) = info.id.val
               /\ e.link = [href |-> info.enc.val, rel |-> "alternate"]
               /\ e.link.href # e.id
               /\ e.content = info.description.val
               /\ e.published = info.date
               /\ e.updated = utcnow(clock)
               /\ e.updated # info.date

C9_Witness ==
    /\ calls # <<>>
    /\ calls[Len(calls)].fn = "add_feed_item"
    /\ Len(Entries) = 2
    /\ clock = 1
    /\ Entries[1].updated # Entries[2].updated

\* The calls of a run in which n rows are extracted and appended
RECURSIVE LoopCalls(_)
LoopCalls(n) ==
    IF n = 0 THEN <<>>
    ELSE LoopCalls(n - 1) \o <<Call("extract_info", n), Call("add_feed_item", n)>>
FullRun(n) ==
    <<Call("get_release_pages", 0), Call("create_base_feed", 0)>>
        \o LoopCalls(n) \o <<Call("write_feed", 0)>>
IsPrefix(a, b) == Len(a) <= Len(b) /\ a = SubSeq(b, 1, Len(a))

\* The fetch is ok and extract_info succeeds on every matched row
CleanPage ==
    /\ Fetched
    /\ resp_pg.status_code \notin 400..599
    /\ \A k \in 1..Len(Matched) : extract_info(Matched[k]).raised = "none"

\* C10 as stated (termination aside): on a clean page every matched row is
\* extracted once and then appended once, in turn, write_feed is called once
\* after the last append, the written feed has one entry per matched row
\* and the process exits with status 0.
C10_Original ==
    CleanPage
        => /\ IsPrefix(calls, FullRun(Len(Matched)))
           /\ pc = "done"
                 => /\ calls = FullRun(Len(Matched))
                    /\ file = rss_file(fg)
                    /\ Len(Entries) = Len(Matched)
                    /\ exit_code = 0

C10_Lifecycle ==
    CleanPage
        => /\ IsPrefix(calls, FullRun(Len(Matched)))
           /\ pc \in {"written", "done"} => calls = FullRun(Len(Matched))
           /\ pc = "done"
                 => \/ /\ exc = "none"
                       /\ exit_code = 0
                       /\ file = rss_file(fg)
                       /\ Len(Entries) = Len(Matched)
                    \/ /\ exc = "OSError"
                       /\ exit_code = 1

\* C10, amended: as stated, except that the feed is written and the status
\* is 0 only if write_feed does not raise; when it raises the process ends
\* with status 1 after that one call.  Every run reaches its end.
C10_LifecycleAndTermination == []C10_Lifecycle /\ <>(pc = "done")

C10_Witness ==
    /\ CleanPage
    /\ RunSucceeded
    /\ Len(Matched) = 2
    /\ Len(file.items) = 2
    /\ calls = FullRun(2)

====
